---- MODULE Spec2Model ----
(***************************************************************************)
(* A model of import.py of atx311: the 311 service-request importer.       *)
(*                                                                         *)
(* Python strings are TLA+ strings, read character by character.  Python   *)
(* values are tagged records (None, str, int, float, dict); a raised       *)
(* exception is a tagged record as well, so that "raises" and "returns     *)
(* None" are different outcomes.  A matcher is written as the chain of its *)
(* stages, each an operator that is handed what the stages before it       *)
(* found.                                                                  *)
(*                                                                         *)
(* Spec is a run of _import: template, chunked reads, bulk requests.       *)
(* SpecCoordinates, SpecIndexName, SpecHydrate and SpecBuffer apply        *)
(* coordinates, _document_to_index_name, _document_from_row (with int and  *)
(* float) and the buffer loop of _index_documents to inputs drawn from     *)
(* bounded sets.  The properties follow the specifications.                *)
(***************************************************************************)
EXTENDS Integers, Sequences, FiniteSets, TLC

VARIABLES
    path,       \* args.path is set: the rows come from a local file
    source,     \* the rows csv.DictReader will give, in order
    index_chunksize,
    pc,         \* where _import stands
    consumed,   \* rows the documents iterator has taken from the reader
    opened,     \* the generator has started: the file or the download is open
    chunk,      \* the tuple islice returned last
    requests,   \* the HTTP requests issued so far, with the status of each
    raised,     \* the exception that ended the run ("" when none)
    call,       \* the function under test, of a specification of a function
    arg,        \* its argument
    ret,        \* what it returned (or the exception it raised)
    shape       \* the parts the argument was assembled from

runvars == <<path, source, index_chunksize, pc, consumed, opened, chunk, requests, raised>>

fnvars == <<call, arg, ret, shape>>

vars == <<runvars, fnvars>>

ELASTICSEARCH_ENDPOINT == "http://localhost:9200"

CSV_DOWNLOAD_ENDPOINT == "https://data.austintexas.gov/api/views/xwdj-i9he/rows.csv"

(***************************************************************************)
(* Python values                                                           *)
(***************************************************************************)
None == [t |-> "NoneType"]

PyStr(s) == [t |-> "str", s |-> s]

PyInt(n) == [t |-> "int", n |-> n]

\* A float is kept as the decimal it was read from: 0.<digits> * 10^decpt,
\* digits without leading or trailing zeros ("" for zero).  Decimals of at
\* most 15 significant digits name different doubles, and repr writes the
\* same digits back.
PyFloat(neg, digits, decpt) ==
    [t |-> "float", kind |-> "finite", neg |-> neg, digits |-> digits, decpt |-> decpt]

Inf(neg) == [t |-> "float", kind |-> "inf", neg |-> neg, digits |-> "", decpt |-> 0]

NaN == [t |-> "float", kind |-> "nan", neg |-> FALSE, digits |-> "", decpt |-> 0]

\* A dict is the sequence of its items, in insertion order.
Dict(items) == [t |-> "dict", items |-> items]

Item(key, value) == [k |-> key, v |-> value]

Raise(exc) == [t |-> "raise", exc |-> exc]

IsRaise(v) == v.t = "raise"

DictHas(d, key) == \E i \in 1..Len(d.items) : d.items[i].k = key

\* d[key]: the value, or KeyError.
DictGet(d, key) ==
    IF DictHas(d, key)
    THEN d.items[CHOOSE i \in 1..Len(d.items) : d.items[i].k = key].v
    ELSE Raise("KeyError")

\* d[key] = value on the items of d: replaces the value of key, or appends.
SetItem(items, key, value) ==
    IF \E j \in 1..Len(items) : items[j].k = key
    THEN [j \in 1..Len(items) |-> IF items[j].k = key THEN Item(key, value) ELSE items[j]]
    ELSE Append(items, Item(key, value))

(***************************************************************************)
(* Characters                                                              *)
(***************************************************************************)
\* s[i] as a one-character string; "" past either end.
Ch(s, i) == IF 1 <= i /\ i <= Len(s) THEN SubSeq(s, i, i) ELSE ""

\* s[i-1:j] of Python (1-based, both ends included), cut to the string.
Slice(s, i, j) ==
    IF i > j \/ i > Len(s) \/ j < 1 THEN ""
    ELSE SubSeq(s, IF i < 1 THEN 1 ELSE i, IF j > Len(s) THEN Len(s) ELSE j)

\* s[i-1:] of Python.
From(s, i) == Slice(s, i, Len(s))

\* Whitespace: \s of re, and what str.strip() strips.
Space == {" ", "\t", "\n", "\r", "\f"}

Digit == {"0", "1", "2", "3", "4", "5", "6", "7", "8", "9"}

DigitVal(c) ==
    CASE c = "0" -> 0 [] c = "1" -> 1 [] c = "2" -> 2 [] c = "3" -> 3
      [] c = "4" -> 4 [] c = "5" -> 5 [] c = "6" -> 6 [] c = "7" -> 7
      [] c = "8" -> 8 [] c = "9" -> 9

\* The first index >= i whose character is not in cs (Len(s) + 1 when none):
\* the end of a greedy run cs* that starts at i.
RECURSIVE RunEnd(_, _, _)
RunEnd(s, i, cs) == IF Ch(s, i) \in cs THEN RunEnd(s, i + 1, cs) ELSE i

\* The last index <= j whose character is not in cs (0 when none).
RECURSIVE RunStart(_, _, _)
RunStart(s, j, cs) == IF Ch(s, j) \in cs THEN RunStart(s, j - 1, cs) ELSE j

\* int() of a string of ASCII digits.
RECURSIVE DigitsVal(_)
DigitsVal(s) ==
    IF s = "" THEN 0
    ELSE 10 * DigitsVal(Slice(s, 1, Len(s) - 1)) + DigitVal(Ch(s, Len(s)))

\* str() of a natural number.
RECURSIVE NatStr(_)
NatStr(n) ==
    IF n < 10 THEN Ch("0123456789", n + 1)
    ELSE NatStr(n \div 10) \o Ch("0123456789", (n % 10) + 1)

\* format(n, "02d")
Pad2(n) == IF n < 10 THEN "0" \o NatStr(n) ELSE NatStr(n)

RECURSIVE Remove(_, _)
Remove(s, c) ==
    IF s = "" THEN ""
    ELSE IF Ch(s, 1) = c THEN Remove(From(s, 2), c)
    ELSE Ch(s, 1) \o Remove(From(s, 2), c)

\* s.strip()
Strip(s) == Slice(s, RunEnd(s, 1, Space), RunStart(s, Len(s), Space))

(***************************************************************************)
(* coordinates                                                             *)
(***************************************************************************)
\* The sign run of the longitude group: "-+" of the pattern, one or more "-".
LonSignEnd(s, i) == IF Ch(s, i) = "-" THEN RunEnd(s, i, {"-"}) ELSE 0

\* \d+\.\d+ from i, whose digits before the point end at a: the index after
\* it, 0 when it does not match there.
DecimalFrom(s, i, a) ==
    IF a > i /\ Ch(s, a) = "." /\ RunEnd(s, a + 1, Digit) > a + 1
    THEN RunEnd(s, a + 1, Digit)
    ELSE 0

DecimalEnd(s, i) == DecimalFrom(s, i, RunEnd(s, i, Digit))

\* "$" of Python's re: the end of the string, or just before a final newline.
AtDollar(s, i) == i = Len(s) + 1 \/ (i = Len(s) /\ Ch(s, i) = "\n")

\* The rest of the pattern after the longitude, which ends before lonEnd.
MatchClose(s, latEnd, lonEnd) ==
    IF lonEnd > 0 /\ Ch(s, lonEnd) = ")" /\ AtDollar(s, lonEnd + 1)
    THEN <<Slice(s, 2, latEnd - 1), Slice(s, latEnd + 2, lonEnd - 1)>>
    ELSE <<>>

\* The rest of the pattern after the sign run, which ends before sgnEnd.
MatchLon(s, latEnd, sgnEnd) ==
    IF sgnEnd > 0 THEN MatchClose(s, latEnd, DecimalEnd(s, sgnEnd)) ELSE <<>>

\* The rest of the pattern after the latitude, which ends before latEnd.
MatchSep(s, latEnd) ==
    IF latEnd > 0 /\ Ch(s, latEnd) = "," /\ Ch(s, latEnd + 1) = " "
    THEN MatchLon(s, latEnd, LonSignEnd(s, latEnd + 2))
    ELSE <<>>

\* re.match(r"^\((\d+\.\d+), (-+\d+\.\d+)\)$", s): the two groups, or <<>>.
\* No alternative of the pattern overlaps the token after it, so the greedy
\* scan is the only way to match.
CoordinatesMatch(s) == IF Ch(s, 1) = "(" THEN MatchSep(s, DecimalEnd(s, 2)) ELSE <<>>

\* lat, lon = match.groups(); return f"{lat},{lon}"
JoinGroups(groups) == IF Len(groups) = 2 THEN PyStr(groups[1] \o "," \o groups[2]) ELSE None

coordinates(input_str) == JoinGroups(CoordinatesMatch(input_str))

(***************************************************************************)
(* The row formatters int and float (str is the identity on a str)         *)
(***************************************************************************)
\* The underscore rule of int() and float(): an underscore stands only
\* between two digits.
UnderscoresOk(s) ==
    \A i \in 1..Len(s) :
        Ch(s, i) = "_" => Ch(s, i - 1) \in Digit /\ Ch(s, i + 1) \in Digit

AllDigits(s) == \A i \in 1..Len(s) : Ch(s, i) \in Digit

\* The digits of an int literal after its sign.
IntOfBody(neg, body) ==
    IF body # "" /\ UnderscoresOk(body) /\ AllDigits(Remove(body, "_"))
    THEN PyInt(IF neg THEN 0 - DigitsVal(Remove(body, "_")) ELSE DigitsVal(Remove(body, "_")))
    ELSE Raise("ValueError")

IntOfStripped(x) ==
    IntOfBody(Ch(x, 1) = "-", IF Ch(x, 1) \in {"+", "-"} THEN From(x, 2) ELSE x)

\* int(s) for a str s: base 10, surrounding whitespace, a sign, underscores.
PyIntOf(s) == IntOfStripped(Strip(s))

LowerCh(c) ==
    CASE c = "I" -> "i" [] c = "N" -> "n" [] c = "F" -> "f" [] c = "T" -> "t"
      [] c = "Y" -> "y" [] c = "A" -> "a" [] OTHER -> c

RECURSIVE LowerStr(_)
LowerStr(s) == IF s = "" THEN "" ELSE LowerCh(Ch(s, 1)) \o LowerStr(From(s, 2))

\* 0.<all> * 10^point as a float: leading zeros move the point, trailing
\* zeros do not.
DecimalDigits(neg, all, point) ==
    IF RunEnd(all, 1, {"0"}) > Len(all) THEN PyFloat(neg, "", 0)
    ELSE PyFloat(neg,
                 Slice(all, RunEnd(all, 1, {"0"}), RunStart(all, Len(all), {"0"})),
                 point - (RunEnd(all, 1, {"0"}) - 1))

\* intpart.fracpart * 10^exp
Decimal(neg, intpart, fracpart, exp) ==
    DecimalDigits(neg, intpart \o fracpart, Len(intpart) + exp)

\* The exponent, whose digits start at expStart and must reach the end.
FloatExp(neg, body, intpart, fracpart, expNeg, expStart) ==
    IF expStart <= Len(body) /\ RunEnd(body, expStart, Digit) = Len(body) + 1
    THEN Decimal(neg, intpart, fracpart,
                 IF expNeg THEN 0 - DigitsVal(From(body, expStart))
                 ELSE DigitsVal(From(body, expStart)))
    ELSE Raise("ValueError")

\* After the mantissa, which ends before fracEnd: the end, or an exponent.
FloatFrac(neg, body, intpart, fracpart, fracEnd) ==
    IF intpart \o fracpart = "" THEN Raise("ValueError")
    ELSE IF fracEnd = Len(body) + 1 THEN Decimal(neg, intpart, fracpart, 0)
    ELSE IF Ch(body, fracEnd) \in {"e", "E"}
         THEN FloatExp(neg, body, intpart, fracpart, Ch(body, fracEnd + 1) = "-",
                       IF Ch(body, fracEnd + 1) \in {"+", "-"} THEN fracEnd + 2
                       ELSE fracEnd + 1)
    ELSE Raise("ValueError")

\* After the digits before the point, which end before intEnd.
FloatInt(neg, body, intEnd) ==
    IF Ch(body, intEnd) = "."
    THEN FloatFrac(neg, body, Slice(body, 1, intEnd - 1),
                   Slice(body, intEnd + 1, RunEnd(body, intEnd + 1, Digit) - 1),
                   RunEnd(body, intEnd + 1, Digit))
    ELSE FloatFrac(neg, body, Slice(body, 1, intEnd - 1), "", intEnd)

FloatBody(neg, body) ==
    IF LowerStr(body) \in {"inf", "infinity"} THEN Inf(neg)
    ELSE IF LowerStr(body) = "nan" THEN NaN
    ELSE FloatInt(neg, body, RunEnd(body, 1, Digit))

FloatSigned(x) ==
    FloatBody(Ch(x, 1) = "-", IF Ch(x, 1) \in {"+", "-"} THEN From(x, 2) ELSE x)

\* float(s) for a str s: surrounding whitespace, underscores, a sign, then
\* inf, infinity or nan in any case, or a decimal with an optional exponent.
PyFloatOf(s) ==
    IF UnderscoresOk(Strip(s)) THEN FloatSigned(Remove(Strip(s), "_"))
    ELSE Raise("ValueError")

(***************************************************************************)
(* _document_to_index_name                                                 *)
(*                                                                         *)
(* datetime.strptime(s, "%m/%d/%Y %I:%M:%S %p") compiles the format to     *)
(*   (?P<m>1[0-2]|0[1-9]|[1-9])/(?P<d>3[0-1]|[1-2]\d|0[1-9]|[1-9]| [1-9])  *)
(*   /(?P<Y>\d\d\d\d)\s+(?P<I>1[0-2]|0[1-9]|[1-9]):(?P<M>[0-5]\d|\d)       *)
(*   :(?P<S>6[0-1]|[0-5]\d|\d)\s+(?P<p>am|pm)          (re.IGNORECASE)     *)
(* matches it at the start of s, wants the match to end where s ends, and  *)
(* builds the datetime, which validates the date and the second.           *)
(***************************************************************************)
\* 1[0-2]|0[1-9]|[1-9]   (%m and %I)
ReMonth(f) ==
    \/ Len(f) = 2 /\ Ch(f, 1) = "1" /\ Ch(f, 2) \in {"0", "1", "2"}
    \/ Len(f) = 2 /\ Ch(f, 1) = "0" /\ Ch(f, 2) \in Digit \ {"0"}
    \/ Len(f) = 1 /\ Ch(f, 1) \in Digit \ {"0"}

\* 3[0-1]|[1-2]\d|0[1-9]|[1-9]| [1-9]   (%d)
ReDay(f) ==
    \/ Len(f) = 2 /\ Ch(f, 1) = "3" /\ Ch(f, 2) \in {"0", "1"}
    \/ Len(f) = 2 /\ Ch(f, 1) \in {"1", "2"} /\ Ch(f, 2) \in Digit
    \/ Len(f) = 2 /\ Ch(f, 1) = "0" /\ Ch(f, 2) \in Digit \ {"0"}
    \/ Len(f) = 1 /\ Ch(f, 1) \in Digit \ {"0"}
    \/ Len(f) = 2 /\ Ch(f, 1) = " " /\ Ch(f, 2) \in Digit \ {"0"}

\* \d\d\d\d   (%Y)
ReYear(f) == Len(f) = 4 /\ AllDigits(f)

\* [0-5]\d|\d   (%M)
ReMinute(f) ==
    \/ Len(f) = 2 /\ Ch(f, 1) \in {"0", "1", "2", "3", "4", "5"} /\ Ch(f, 2) \in Digit
    \/ Len(f) = 1 /\ Ch(f, 1) \in Digit

\* 6[0-1]|[0-5]\d|\d   (%S)
ReSecond(f) ==
    \/ Len(f) = 2 /\ Ch(f, 1) = "6" /\ Ch(f, 2) \in {"0", "1"}
    \/ ReMinute(f)

\* am|pm, ignoring case   (%p, the C locale)
ReAmPm(f) ==
    /\ Len(f) = 2
    /\ Ch(f, 1) \in {"a", "A", "p", "P"}
    /\ Ch(f, 2) \in {"m", "M"}

\* The directive of a field of the pattern.
ReField(directive, f) ==
    CASE directive = "m" -> ReMonth(f)
      [] directive = "d" -> ReDay(f)
      [] directive = "I" -> ReMonth(f)
      [] directive = "M" -> ReMinute(f)
      [] directive = "S" -> ReSecond(f)

\* The length of the field of a directive at i, 0 when there is none.  What
\* follows a field in the pattern (a "/", a ":", whitespace) is a character
\* no field ends with, so the field is as long as it can be read up to that
\* character, and the backtracking matcher finds that length.
FieldLen(directive, s, i, follow) ==
    IF ReField(directive, Slice(s, i, i + 1)) /\ Ch(s, i + 2) \in follow THEN 2
    ELSE IF ReField(directive, Slice(s, i, i)) /\ Ch(s, i + 1) \in follow THEN 1
    ELSE 0

\* The match, field after field: the texts of the fields matched so far
\* are in fields, <<>> is no match.  A \s+ takes its whole run of
\* whitespace, for what follows it is a digit or a letter.  After the
\* marker nothing may stand ("unconverted data remains" otherwise).
MatchMarker(s, fields, at) ==
    IF ReAmPm(Slice(s, at, at + 1)) /\ at + 1 = Len(s)
    THEN Append(fields, Slice(s, at, at + 1))
    ELSE <<>>

MatchSecond(s, fields, at, n) ==
    IF n = 0 THEN <<>>
    ELSE MatchMarker(s, Append(fields, Slice(s, at, at + n - 1)), RunEnd(s, at + n, Space))

MatchMinute(s, fields, at, n) ==
    IF n = 0 THEN <<>>
    ELSE MatchSecond(s, Append(fields, Slice(s, at, at + n - 1)), at + n + 1,
                     FieldLen("S", s, at + n + 1, Space))

MatchHour(s, fields, at, n) ==
    IF n = 0 THEN <<>>
    ELSE MatchMinute(s, Append(fields, Slice(s, at, at + n - 1)), at + n + 1,
                     FieldLen("M", s, at + n + 1, {":"}))

MatchTime(s, fields, at) == MatchHour(s, fields, at, FieldLen("I", s, at, {":"}))

MatchYear(s, fields, at) ==
    IF ReYear(Slice(s, at, at + 3)) /\ Ch(s, at + 4) \in Space
    THEN MatchTime(s, Append(fields, Slice(s, at, at + 3)), RunEnd(s, at + 4, Space))
    ELSE <<>>

MatchDay(s, fields, at, n) ==
    IF n = 0 THEN <<>>
    ELSE MatchYear(s, Append(fields, Slice(s, at, at + n - 1)), at + n + 1)

MatchMonth(s, n) ==
    IF n = 0 THEN <<>>
    ELSE MatchDay(s, <<Slice(s, 1, n)>>, n + 2, FieldLen("d", s, n + 2, {"/"}))

\* format_regex.match(data_string): the texts of %m %d %Y %I %M %S %p, or
\* <<>> when the string does not match up to its end.
StrptimeMatch(s) == MatchMonth(s, FieldLen("m", s, 1, {"/"}))

\* int() of a matched field (the day may carry a leading space).
FieldVal(f) == IF Ch(f, 1) = " " THEN DigitsVal(From(f, 2)) ELSE DigitsVal(f)

IsLeap(year) == year % 4 = 0 /\ (year % 100 # 0 \/ year % 400 = 0)

DaysInMonth(year, month) ==
    IF month = 2 THEN (IF IsLeap(year) THEN 29 ELSE 28)
    ELSE IF month \in {4, 6, 9, 11} THEN 30 ELSE 31

\* %I and %p to the hour of the day.
Hour24(hour12, pm) ==
    IF pm THEN (IF hour12 = 12 THEN 12 ELSE hour12 + 12)
    ELSE (IF hour12 = 12 THEN 0 ELSE hour12)

\* datetime(year, month, day, hour, minute, second): ValueError for year 0,
\* a day the month does not have, or second 60 and 61, which %S lets through.
Datetime(year, month, day, hour, minute, second) ==
    IF year < 1 \/ day > DaysInMonth(year, month) \/ second > 59
    THEN Raise("ValueError")
    ELSE [t |-> "datetime", year |-> year, month |-> month, day |-> day,
          hour |-> hour, minute |-> minute, second |-> second]

\* The datetime of the fields matched, ValueError when nothing matched.
DatetimeOfMatch(fields) ==
    IF fields = <<>> THEN Raise("ValueError")
    ELSE Datetime(FieldVal(fields[3]), FieldVal(fields[1]), FieldVal(fields[2]),
                  Hour24(FieldVal(fields[4]), Ch(fields[7], 1) \in {"p", "P"}),
                  FieldVal(fields[5]), FieldVal(fields[6]))

\* datetime.datetime.strptime(data_string, "%m/%d/%Y %I:%M:%S %p")
Strptime(data_string) ==
    IF data_string.t # "str" THEN Raise("TypeError")
    ELSE DatetimeOfMatch(StrptimeMatch(data_string.s))

\* IndexNameOf as f"atx311-{created_dt.year}-{created_dt.month}" would be.
IndexNameUnpadded(created_dt) ==
    IF IsRaise(created_dt) THEN created_dt
    ELSE PyStr("atx311-" \o NatStr(created_dt.year) \o "-" \o NatStr(created_dt.month))

\* f"atx311-{created_dt.year}-{created_dt.month:02d}"
IndexNameOf(created_dt) ==
    IF IsRaise(created_dt) THEN created_dt
    ELSE PyStr("atx311-" \o NatStr(created_dt.year) \o "-" \o Pad2(created_dt.month))

_document_to_index_name(doc) ==
    IF DictHas(doc, "timestamp") THEN IndexNameOf(Strptime(DictGet(doc, "timestamp")))
    ELSE Raise("KeyError")

(***************************************************************************)
(* ROW_TO_FIELD and _document_from_row                                     *)
(***************************************************************************)
MappedField(column, new_name, es_format, row_formatter) ==
    [column |-> column, new_name |-> new_name, es_format |-> es_format,
     row_formatter |-> row_formatter]

EsType(type) == <<Item("type", type)>>

EsDate == <<Item("type", "date"), Item("format", "MM/dd/yyyy HH:mm:ss a")>>

\* The mapping table, in the order the dict is written (and iterated).
ROW_TO_FIELD ==
    << MappedField("Service Request (SR) Number", "sr_req_number", EsType("keyword"), "str"),
       MappedField("SR Description", "sr_req_description", EsType("keyword"), "str"),
       MappedField("Method Recieved", "sr_req_method_recieved", EsType("keyword"), "str"),
       MappedField("SR Status", "sr_req_status", EsType("keyword"), "str"),
       MappedField("Status Change Date", "sr_req_status_change_date", EsDate, "str"),
       MappedField("Created Date", "timestamp", EsDate, "str"),
       MappedField("Last Update Date", "sr_req_last_updated_date", EsDate, "str"),
       MappedField("Close Date", "sr_req_closed_date", EsDate, "str"),
       MappedField("SR Location", "sr_req_location", EsType("text"), "str"),
       MappedField("Council District", "sr_req_council_district_number",
                   EsType("integer"), "int"),
       MappedField("Latitude Coordinate", "sr_req_latitude_coordinate",
                   EsType("float"), "float"),
       MappedField("Longitude Coordinate", "sr_req_longitude_coordinate",
                   EsType("float"), "float"),
       MappedField("(Latitude.Longitude)", "sr_req_coordinates",
                   EsType("geo_point"), "coordinates") >>

\* INDEX_MAPPINGS["mappings"]["properties"]: every new_name with its
\* es_format, in table order.
INDEX_MAPPINGS ==
    [i \in 1..Len(ROW_TO_FIELD) |->
        Item(ROW_TO_FIELD[i].new_name, ROW_TO_FIELD[i].es_format)]

\* (mapping.row_formatter)(value) for a str value.
Format(row_formatter, value) ==
    CASE row_formatter = "str" -> value
      [] row_formatter = "int" -> PyIntOf(value.s)
      [] row_formatter = "float" -> PyFloatOf(value.s)
      [] row_formatter = "coordinates" -> coordinates(value.s)

\* bool(value) for the values csv.DictReader gives: a str, or None for a
\* column the line is too short to fill.
Truthy(value) == value.t = "str" /\ value.s # ""

\* (mapping.row_formatter)(row[column_name]) if row[column_name] else None
FieldValue(mapping, raw) ==
    IF Truthy(raw) THEN Format(mapping.row_formatter, raw) ELSE None

\* document[mapping.new_name] = value, unless computing the value raised.
Store(document, new_name, value) ==
    IF IsRaise(value) THEN value ELSE Dict(SetItem(document.items, new_name, value))

\* PutField as a loop without the test `column_name in row`, reading the
\* row with row.get(column_name), would be.
PutFieldAlways(document, row, mapping) ==
    IF IsRaise(document) THEN document
    ELSE IF ~DictHas(row, mapping.column)
    THEN Store(document, mapping.new_name, None)
    ELSE Store(document, mapping.new_name, FieldValue(mapping, DictGet(row, mapping.column)))

\* One turn of the loop, on the document of the turns before it (or the
\* exception that ended them).
PutField(document, row, mapping) ==
    IF IsRaise(document) \/ ~DictHas(row, mapping.column) THEN document
    ELSE Store(document, mapping.new_name, FieldValue(mapping, DictGet(row, mapping.column)))

\* The loop of _document_from_row over the first n entries of ROW_TO_FIELD.
RECURSIVE DocumentUpTo(_, _)
DocumentUpTo(row, n) ==
    IF n = 0 THEN Dict(<<>>)
    ELSE PutField(DocumentUpTo(row, n - 1), row, ROW_TO_FIELD[n])

\* The document of the HydratedDocumentResponse (its field_mapping, the last
\* entry of the table whatever the row, is read nowhere).
_document_from_row(row) == DocumentUpTo(row, Len(ROW_TO_FIELD))

(***************************************************************************)
(* json.dumps, as _index_documents calls it: the default separators,       *)
(* ensure_ascii, allow_nan                                                 *)
(***************************************************************************)
\* EscapeCh as an encoder that forgets the backslash would be.
EscapeChNoBackslash(c) ==
    CASE c = "\"" -> "\\\""
      [] c = "\n" -> "\\n"
      [] c = "\r" -> "\\r"
      [] c = "\t" -> "\\t"
      [] c = "\f" -> "\\f"
      [] OTHER -> c

\* One character inside a JSON string.  The characters of the model are
\* printable ASCII and the four controls below, each with a short escape.
EscapeCh(c) ==
    CASE c = "\"" -> "\\\""
      [] c = "\\" -> "\\\\"
      [] c = "\n" -> "\\n"
      [] c = "\r" -> "\\r"
      [] c = "\t" -> "\\t"
      [] c = "\f" -> "\\f"
      [] OTHER -> c

RECURSIVE EscapeStr(_)
EscapeStr(s) == IF s = "" THEN "" ELSE EscapeCh(Ch(s, 1)) \o EscapeStr(From(s, 2))

\* json.encoder.encode_basestring_ascii
EncodeString(s) == "\"" \o EscapeStr(s) \o "\""

RECURSIVE Zeros(_)
Zeros(n) == IF n <= 0 THEN "" ELSE "0" \o Zeros(n - 1)

\* int.__repr__
IntRepr(n) == IF n < 0 THEN "-" \o NatStr(0 - n) ELSE NatStr(n)

\* The exponent of a repr: a sign and at least two digits.
ExpRepr(e) == IF e < 0 THEN "-" \o Pad2(0 - e) ELSE "+" \o Pad2(e)

\* float.__repr__ of 0.<d> * 10^p, d not empty: the digits that read back,
\* with an exponent when p <= -4 or p > 16.
DigitsRepr(d, p) ==
    IF p <= 0 - 4 \/ p > 16
    THEN Ch(d, 1) \o (IF Len(d) > 1 THEN "." \o From(d, 2) ELSE "") \o "e" \o ExpRepr(p - 1)
    ELSE IF p <= 0 THEN "0." \o Zeros(0 - p) \o d
    ELSE IF p >= Len(d) THEN d \o Zeros(p - Len(d)) \o ".0"
    ELSE Slice(d, 1, p) \o "." \o From(d, p + 1)

FloatRepr(f) ==
    (IF f.neg THEN "-" ELSE "")
    \o (IF f.digits = "" THEN "0.0" ELSE DigitsRepr(f.digits, f.decpt))

\* json.encoder floatstr, allow_nan=True
FloatStr(f) ==
    CASE f.kind = "nan" -> "NaN"
      [] f.kind = "inf" -> (IF f.neg THEN "-Infinity" ELSE "Infinity")
      [] OTHER -> FloatRepr(f)

RECURSIVE Dumps(_)
RECURSIVE DumpItems(_, _)
\* The items i.. of a dict, ", " between them.
DumpItems(items, i) ==
    IF i > Len(items) THEN ""
    ELSE (IF i > 1 THEN ", " ELSE "")
         \o EncodeString(items[i].k) \o ": " \o Dumps(items[i].v)
         \o DumpItems(items, i + 1)

\* json.dumps(obj)
Dumps(obj) ==
    CASE obj.t = "NoneType" -> "null"
      [] obj.t = "str" -> EncodeString(obj.s)
      [] obj.t = "int" -> IntRepr(obj.n)
      [] obj.t = "float" -> FloatStr(obj)
      [] obj.t = "dict" -> "{" \o DumpItems(obj.items, 1) \o "}"

(***************************************************************************)
(* _index_documents: the buffer                                            *)
(***************************************************************************)
\* json.dumps({"index": {"_index": index}}) + "\n" + json.dumps(document) + "\n"
ActionAndDocument(index, document) ==
    IF IsRaise(index) THEN index
    ELSE PyStr(Dumps(Dict(<<Item("index", Dict(<<Item("_index", index)>>))>>)) \o "\n"
               \o Dumps(document) \o "\n")

\* The two lines the loop writes for one document, or the exception of
\* _document_to_index_name.
BulkLines(document) == ActionAndDocument(_document_to_index_name(document), document)

\* Written as a loop that skips a document whose index name cannot be
\* computed would be.
WrittenSkipping(first, later) ==
    IF IsRaise(first) THEN later
    ELSE IF IsRaise(later) THEN later
    ELSE PyStr(first.s \o later.s)

\* What the first turn wrote, then what the later turns wrote, unless one
\* of them raised: the first to raise ends the loop.
Written(first, later) ==
    IF IsRaise(first) THEN first
    ELSE IF IsRaise(later) THEN later
    ELSE PyStr(first.s \o later.s)

\* BulkBuffer as a loop that computes the index name once, from the first
\* document of the chunk, would be.
RECURSIVE LinesForIndex(_, _)
LinesForIndex(index, docs) ==
    IF docs = <<>> THEN PyStr("")
    ELSE Written(ActionAndDocument(index, Head(docs)), LinesForIndex(index, Tail(docs)))

BulkBufferOneIndex(docs_chunk) ==
    IF docs_chunk = <<>> THEN PyStr("")
    ELSE LinesForIndex(_document_to_index_name(Head(docs_chunk)), docs_chunk)

\* buffer.getvalue() after the loop over docs_chunk, or the exception that
\* ended the loop.
RECURSIVE BulkBuffer(_)
BulkBuffer(docs_chunk) ==
    IF docs_chunk = <<>> THEN PyStr("")
    ELSE Written(BulkLines(Head(docs_chunk)), BulkBuffer(Tail(docs_chunk)))

(***************************************************************************)
(* json.loads: the reader the properties use to look into a payload        *)
(***************************************************************************)
JsonSpace == {" ", "\t", "\n", "\r"}

JsonError == Raise("JSONDecodeError")

Parsed(v, next) == [v |-> v, next |-> next]

\* The first index >= i that ends a run of plain characters of a string.
RECURSIVE PlainEnd(_, _)
PlainEnd(s, i) ==
    IF Ch(s, i) \in {"", "\"", "\\", "\n", "\r", "\t", "\f"} THEN i ELSE PlainEnd(s, i + 1)

\* json.decoder.scanstring from i, the index after the opening quote:
\* the characters read and the index after the closing quote.
RECURSIVE ScanString(_, _, _)
\* At e, where the plain characters from i end: the closing quote, an
\* escape, or a character a string may not hold.
ScanStringEnd(s, e, c, acc) ==
    IF c = "\"" THEN Parsed(PyStr(acc), e + 1)
    ELSE IF c # "\\" THEN Parsed(JsonError, e)
    ELSE IF Ch(s, e + 1) \in {"\"", "\\", "/"} THEN ScanString(s, e + 2, acc \o Ch(s, e + 1))
    ELSE IF Ch(s, e + 1) = "n" THEN ScanString(s, e + 2, acc \o "\n")
    ELSE IF Ch(s, e + 1) = "r" THEN ScanString(s, e + 2, acc \o "\r")
    ELSE IF Ch(s, e + 1) = "t" THEN ScanString(s, e + 2, acc \o "\t")
    ELSE IF Ch(s, e + 1) = "f" THEN ScanString(s, e + 2, acc \o "\f")
    ELSE Parsed(JsonError, e)

ScanStringRun(s, i, e, acc) == ScanStringEnd(s, e, Ch(s, e), acc \o Slice(s, i, e - 1))

ScanString(s, i, acc) == ScanStringRun(s, i, PlainEnd(s, i), acc)

\* NUMBER_RE: (-?(?:0|[1-9]\d*))(\.\d+)?([eE][-+]?\d+)? from i; an int when
\* there is neither fraction nor exponent, else a float.
NumberEnd(s, i, intEnd, end) ==
    IF end = intEnd THEN Parsed(PyIntOf(Slice(s, i, end - 1)), end)
    ELSE Parsed(PyFloatOf(Slice(s, i, end - 1)), end)

ExpDigits(s, fracEnd) == IF Ch(s, fracEnd + 1) \in {"+", "-"} THEN fracEnd + 2 ELSE fracEnd + 1

NumberExp(s, i, intEnd, fracEnd) ==
    IF Ch(s, fracEnd) \in {"e", "E"} /\ Ch(s, ExpDigits(s, fracEnd)) \in Digit
    THEN NumberEnd(s, i, intEnd, RunEnd(s, ExpDigits(s, fracEnd), Digit))
    ELSE NumberEnd(s, i, intEnd, fracEnd)

NumberFrac(s, i, intEnd) ==
    IF Ch(s, intEnd) = "." /\ Ch(s, intEnd + 1) \in Digit
    THEN NumberExp(s, i, intEnd, RunEnd(s, intEnd + 1, Digit))
    ELSE NumberExp(s, i, intEnd, intEnd)

NumberInt(s, i, d0) ==
    IF Ch(s, d0) = "0" THEN NumberFrac(s, i, d0 + 1)
    ELSE IF Ch(s, d0) \in Digit THEN NumberFrac(s, i, RunEnd(s, d0, Digit))
    ELSE Parsed(JsonError, i)

ScanNumber(s, i) == NumberInt(s, i, IF Ch(s, i) = "-" THEN i + 1 ELSE i)

StartsWith(s, i, w) == Slice(s, i, i + Len(w) - 1) = w

\* The first index >= i that holds no JSON whitespace.
SkipSpace(s, i) == RunEnd(s, i, JsonSpace)

RECURSIVE ScanOnce(_, _)
RECURSIVE ScanObject(_, _, _)

\* After a value of the object: its end, or a comma and the next key.
ObjectNext(s, items, after) ==
    IF Ch(s, after) = "}" THEN Parsed(Dict(items), after + 1)
    ELSE IF Ch(s, after) = "," THEN ScanObject(s, SkipSpace(s, after + 1), items)
    ELSE Parsed(JsonError, after)

ObjectValue(s, items, key, value) ==
    IF IsRaise(value.v) THEN value
    ELSE ObjectNext(s, SetItem(items, key, value.v), SkipSpace(s, value.next))

ObjectKey(s, items, key) ==
    IF IsRaise(key.v) THEN key
    ELSE IF Ch(s, SkipSpace(s, key.next)) # ":" THEN Parsed(JsonError, key.next)
    ELSE ObjectValue(s, items, key.v.s,
                     ScanOnce(s, SkipSpace(s, SkipSpace(s, key.next) + 1)))

\* json.decoder.JSONObject from i, where a key's opening quote must stand.
ScanObject(s, i, items) ==
    IF Ch(s, i) = "\"" THEN ObjectKey(s, items, ScanString(s, i + 1, ""))
    ELSE Parsed(JsonError, i)

\* json.scanner scan_once at i (a list, true and false are not read: dumps
\* writes none here).
ScanOnce(s, i) ==
    IF Ch(s, i) = "\"" THEN ScanString(s, i + 1, "")
    ELSE IF Ch(s, i) = "{" THEN
        (IF Ch(s, SkipSpace(s, i + 1)) = "}"
         THEN Parsed(Dict(<<>>), SkipSpace(s, i + 1) + 1)
         ELSE ScanObject(s, SkipSpace(s, i + 1), <<>>))
    ELSE IF StartsWith(s, i, "null") THEN Parsed(None, i + 4)
    ELSE IF StartsWith(s, i, "NaN") THEN Parsed(NaN, i + 3)
    ELSE IF StartsWith(s, i, "Infinity") THEN Parsed(Inf(FALSE), i + 8)
    ELSE IF StartsWith(s, i, "-Infinity") THEN Parsed(Inf(TRUE), i + 9)
    ELSE ScanNumber(s, i)

\* The value read, when nothing but whitespace follows it.
WholeText(s, r) ==
    IF IsRaise(r.v) THEN r.v
    ELSE IF SkipSpace(s, r.next) # Len(s) + 1 THEN JsonError
    ELSE r.v

\* json.loads(s)
Loads(s) == WholeText(s, ScanOnce(s, SkipSpace(s, 1)))

(***************************************************************************)
(* The functions on bounded inputs                                         *)
(*                                                                         *)
(* Init draws an input and keeps in `shape` the parts it was assembled     *)
(* from; one action per function applies it.  There is one specification   *)
(* per function under test.                                                *)
(***************************************************************************)
\* A call that has not returned yet.
Pending == [t |-> "pending"]

\* Inputs of coordinates, assembled from parts: open lat sep sign lon close.
CoordOpen == {"(", ""}
CoordLat == {"30.123456", "30.1", "30", "-30.1", "30.", ".1", "x"}
CoordSep == {", ", ","}
CoordSign == {"", "-", "--", "+"}
CoordLon == {"97.654321", "97.1", "97"}
CoordClose == {")", "", ")\n", ") "}

CoordShapes ==
    [open : CoordOpen, lat : CoordLat, sep : CoordSep, sign : CoordSign,
     lon : CoordLon, close : CoordClose]

CoordText(p) == p.open \o p.lat \o p.sep \o p.sign \o p.lon \o p.close

\* Inputs of _document_to_index_name: a timestamp written from its fields
\* in one of several styles, and documents without a usable timestamp.
TsYear == {0, 999, 2020, 2021}
TsMonth == {0, 2, 3, 4, 12, 13}
TsDay == {0, 5, 15, 29, 31, 32}
TsHour == {0, 2, 12, 13}
TsMinute == {5, 30, 60}
TsSecond == {0, 60}
TsMarker == {"AM", "PM"}
TsStyle == {"fixed", "unpadded", "lower", "wide", "spaceday", "trailing",
            "leading", "nomarker", "iso", "year2"}

TsShapes ==
    [style : TsStyle, y : TsYear, m : TsMonth, d : TsDay, h : TsHour,
     mi : TsMinute, sec : TsSecond, ap : TsMarker]

Pad4(n) ==
    IF n < 10 THEN "000" \o NatStr(n)
    ELSE IF n < 100 THEN "00" \o NatStr(n)
    ELSE IF n < 1000 THEN "0" \o NatStr(n) ELSE NatStr(n)

Lower(ap) == IF ap = "AM" THEN "am" ELSE "pm"

\* MM/dd/yyyy hh:mm:ss AM|PM
TsFixed(p) ==
    Pad2(p.m) \o "/" \o Pad2(p.d) \o "/" \o Pad4(p.y) \o " " \o
    Pad2(p.h) \o ":" \o Pad2(p.mi) \o ":" \o Pad2(p.sec) \o " " \o p.ap

TsText(p) ==
    CASE p.style = "fixed" -> TsFixed(p)
      [] p.style = "unpadded" ->
            NatStr(p.m) \o "/" \o NatStr(p.d) \o "/" \o Pad4(p.y) \o " " \o
            NatStr(p.h) \o ":" \o NatStr(p.mi) \o ":" \o NatStr(p.sec) \o " " \o p.ap
      [] p.style = "lower" ->
            Pad2(p.m) \o "/" \o Pad2(p.d) \o "/" \o Pad4(p.y) \o " " \o
            Pad2(p.h) \o ":" \o Pad2(p.mi) \o ":" \o Pad2(p.sec) \o " " \o Lower(p.ap)
      [] p.style = "wide" ->
            Pad2(p.m) \o "/" \o Pad2(p.d) \o "/" \o Pad4(p.y) \o "  " \o
            Pad2(p.h) \o ":" \o Pad2(p.mi) \o ":" \o Pad2(p.sec) \o "\t" \o p.ap
      [] p.style = "spaceday" ->
            Pad2(p.m) \o "/" \o (IF p.d < 10 THEN " " \o NatStr(p.d) ELSE NatStr(p.d))
            \o "/" \o Pad4(p.y) \o " " \o
            Pad2(p.h) \o ":" \o Pad2(p.mi) \o ":" \o Pad2(p.sec) \o " " \o p.ap
      [] p.style = "trailing" -> TsFixed(p) \o " "
      [] p.style = "leading" -> " " \o TsFixed(p)
      [] p.style = "nomarker" ->
            Pad2(p.m) \o "/" \o Pad2(p.d) \o "/" \o Pad4(p.y) \o " " \o
            Pad2(p.h) \o ":" \o Pad2(p.mi) \o ":" \o Pad2(p.sec)
      [] p.style = "iso" ->
            Pad4(p.y) \o "-" \o Pad2(p.m) \o "-" \o Pad2(p.d) \o " " \o
            Pad2(p.h) \o ":" \o Pad2(p.mi) \o ":" \o Pad2(p.sec) \o " " \o p.ap
      [] p.style = "year2" ->
            Pad2(p.m) \o "/" \o Pad2(p.d) \o "/" \o Pad2(p.y % 100) \o " " \o
            Pad2(p.h) \o ":" \o Pad2(p.mi) \o ":" \o Pad2(p.sec) \o " " \o p.ap

\* Documents whose timestamp is no string: the key missing, or null.
NoTsDocs ==
    {Dict(<<>>),
     Dict(<<Item("sr_req_status", PyStr("Open"))>>),
     Dict(<<Item("timestamp", None)>>),
     Dict(<<Item("sr_req_status", PyStr("Open")), Item("timestamp", None)>>)}

\* Inputs of int and float.
NumberTexts ==
    {"9", "10", "007", "-3", "+7", " 10 ", "1_0", "1__0", "_1", "1_", "x", "1.5", "",
     " ", "-", "30.123456", "-97.654321", "30.", ".5", ".", "1e5", "1E-5", "1e", "1e+",
     "2.50", "0.0", "-0.0", "000", "0.00012", "120000", "nan", "NaN", "-nan", "inf",
     "-inf", "Infinity", "infinit", "1.5x", "1 5", "\t4\n", "1_0.5", "1._5", "12e1_0",
     "0.000012", "1e16", "1e15", "1e-4", "1e-5", "+.5e+2"}

\* Inputs of float alone: an int of the model is a 32-bit integer.
LongNumberTexts == {"123456789012345", "30.1234567890123"}

\* Raw rows, as csv.DictReader gives them: one item per header column, in
\* header order; a value is a str, or None when the line was short.
Absent == [t |-> "absent"]

RowStatus == {Absent, None, PyStr(""), PyStr("Open")}
RowCreated == {Absent, PyStr(""), PyStr("03/15/2021 02:30:00 PM")}
RowDistrict ==
    {Absent, None, PyStr("")} \cup {PyStr(x) : x \in {"9", " 10 ", "x", "1.5", "-3"}}
RowLatitude ==
    {Absent, PyStr("")} \cup {PyStr(x) : x \in {"30.123456", "nan", "1e5", "30,1", "-0.0"}}
RowCoordinates ==
    {Absent, PyStr("")} \cup {PyStr(x) : x \in {"(30.1, -97.1)", "(30.1, 97.1)"}}
RowExtra == {Absent, PyStr("n/a")}

RowShapes ==
    [status : RowStatus, created : RowCreated, district : RowDistrict,
     latitude : RowLatitude, coords : RowCoordinates, extra : RowExtra]

Cell(column, value) == IF value = Absent THEN <<>> ELSE <<Item(column, value)>>

\* The row of a shape.  The header of this file has its columns in another
\* order than ROW_TO_FIELD, and one column the table does not map.
RowOf(p) ==
    Dict(Cell("Council District", p.district) \o Cell("Map Page", p.extra)
         \o Cell("Created Date", p.created) \o Cell("SR Status", p.status)
         \o Cell("(Latitude.Longitude)", p.coords)
         \o Cell("Latitude Coordinate", p.latitude))

\* Documents for the buffer: rows whose values need escaping or are floats
\* of every kind, hydrated.
DocStatus ==
    {Absent, None} \cup
    {PyStr(x) : x \in {"Open", "say \"hi\"", "back\\slash", "two\nlines", "tab\there",
                       "a/b", "{\"k\": 1}", "null"}}
DocCreated ==
    {PyStr(x) : x \in {"03/15/2021 02:30:00 PM", "12/01/2020 11:59:59 AM", "3/5/2021 1:02:03 pm"}}
    \cup {PyStr("")}
DocDistrict == {Absent, PyStr("")} \cup {PyStr(x) : x \in {"9", "-3", "1_000"}}
DocLatitude ==
    {Absent} \cup
    {PyStr(x) : x \in {"30.123456", "-97.654321", "nan", "inf", "-inf", "1e5", "1e-5",
                       "1e16", "-0.0", "0", "2.50", "0.0001", "123456789012345"}}

DocShapes ==
    [status : DocStatus, created : DocCreated, district : DocDistrict,
     latitude : DocLatitude, coords : {Absent, PyStr("(30.1, -97.1)")},
     extra : {Absent}]

\* The variables of a run of _import, which no function under test reads.
NoRun ==
    /\ path = FALSE /\ source = <<>> /\ index_chunksize = 1 /\ pc = "idle"
    /\ consumed = 0 /\ opened = FALSE /\ chunk = <<>> /\ requests = <<>> /\ raised = ""

InitCoordinates ==
    /\ NoRun
    /\ ret = Pending
    /\ call = "coordinates"
    /\ \/ shape \in CoordShapes /\ arg = PyStr(CoordText(shape))
       \/ \E s \in {"invalid", ""} :
            /\ shape = [open |-> "", lat |-> s, sep |-> "", sign |-> "", lon |-> "",
                        close |-> ""]
            /\ arg = PyStr(s)

CallCoordinates ==
    /\ call = "coordinates" /\ ret = Pending
    /\ ret' = coordinates(arg.s)
    /\ UNCHANGED <<call, arg, shape, runvars>>

SpecCoordinates == InitCoordinates /\ [][CallCoordinates]_vars

InitIndexName ==
    /\ NoRun
    /\ ret = Pending
    /\ call = "_document_to_index_name"
    /\ \/ /\ shape \in TsShapes
          /\ arg = Dict(<<Item("timestamp", PyStr(TsText(shape)))>>)
       \/ /\ arg \in NoTsDocs
          /\ shape = [style |-> "none"]

CallDocumentToIndexName ==
    /\ call = "_document_to_index_name" /\ ret = Pending
    /\ ret' = _document_to_index_name(arg)
    /\ UNCHANGED <<call, arg, shape, runvars>>

SpecIndexName == InitIndexName /\ [][CallDocumentToIndexName]_vars

InitHydrate ==
    /\ NoRun
    /\ ret = Pending
    /\ \/ /\ call = "int"
          /\ \E x \in NumberTexts : arg = PyStr(x) /\ shape = [text |-> x]
       \/ /\ call = "float"
          /\ \E x \in NumberTexts \cup LongNumberTexts :
                arg = PyStr(x) /\ shape = [text |-> x]
       \/ /\ call = "_document_from_row"
          /\ shape \in RowShapes
          /\ arg = RowOf(shape)

CallInt ==
    /\ call = "int" /\ ret = Pending
    /\ ret' = PyIntOf(arg.s)
    /\ UNCHANGED <<call, arg, shape, runvars>>

CallFloat ==
    /\ call = "float" /\ ret = Pending
    /\ ret' = PyFloatOf(arg.s)
    /\ UNCHANGED <<call, arg, shape, runvars>>

CallDocumentFromRow ==
    /\ call = "_document_from_row" /\ ret = Pending
    /\ ret' = _document_from_row(arg)
    /\ UNCHANGED <<call, arg, shape, runvars>>

NextHydrate ==
    \/ CallInt
    \/ CallFloat
    \/ CallDocumentFromRow

SpecHydrate == InitHydrate /\ [][NextHydrate]_vars

InitBuffer ==
    /\ NoRun
    /\ ret = Pending
    /\ call = "_index_documents"
    /\ shape \in DocShapes
    /\ arg = _document_from_row(RowOf(shape))

\* The loop of _index_documents over a chunk of one document.
CallBulkBuffer ==
    /\ call = "_index_documents" /\ ret = Pending
    /\ ret' = BulkBuffer(<<arg>>)
    /\ UNCHANGED <<call, arg, shape, runvars>>

SpecBuffer == InitBuffer /\ [][CallBulkBuffer]_vars

(***************************************************************************)
(* Spec: a run of _import                                                  *)
(***************************************************************************)
MaxRows == 3

MaxChunk == 3

\* The statuses a request may come back with; raise_for_status raises on
\* 4xx and 5xx.
Statuses == {200, 503}

RaisesForStatus(status) == 400 <= status /\ status < 600

Request(method, url, body, status) ==
    [method |-> method, url |-> url, body |-> body, status |-> status]

\* The rows of the model's files: header "Created Date,Council District".
SourceRow(created, district) ==
    Dict(<<Item("Created Date", created), Item("Council District", district)>>)

SourceRows ==
    {SourceRow(PyStr("03/15/2021 02:30:00 PM"), PyStr("9")),
     SourceRow(PyStr("04/01/2021 09:00:00 AM"), None),
     SourceRow(PyStr("03/16/2021 10:00:00 AM"), PyStr("x")),
     SourceRow(PyStr(""), PyStr("4")),
     SourceRow(PyStr("2021-03-17 10:00"), PyStr("7"))}

\* The sequences over S of length exactly n, and of length at most n.
RECURSIVE SeqsOfLen(_, _)
SeqsOfLen(S, n) ==
    IF n = 0 THEN {<<>>} ELSE {Append(q, x) : q \in SeqsOfLen(S, n - 1), x \in S}

SeqsUpTo(S, n) == UNION {SeqsOfLen(S, k) : k \in 0..n}

Init ==
    /\ path \in BOOLEAN
    /\ source \in SeqsUpTo(SourceRows, MaxRows)
    /\ index_chunksize \in 1..MaxChunk
    /\ pc = "template"
    /\ consumed = 0
    /\ opened = FALSE
    /\ chunk = <<>>
    /\ requests = <<>>
    /\ raised = ""
    /\ call = "" /\ arg = None /\ ret = None /\ shape = None

\* res.raise_for_status() and what follows it in the caller.
AfterResponse(status, then) ==
    IF RaisesForStatus(status)
    THEN pc' = "aborted" /\ raised' = "HTTPError"
    ELSE pc' = then /\ raised' = raised

\* CreateIndexTemplate as _create_index_template without raise_for_status
\* would be.
CreateIndexTemplateUnchecked ==
    /\ pc = "template"
    /\ \E status \in Statuses :
        requests' = Append(requests,
                Request("PUT", ELASTICSEARCH_ENDPOINT \o "/_template/atx311",
                        [index_patterns |-> <<"atx311-*">>, mappings |-> INDEX_MAPPINGS],
                        status))
    /\ pc' = "iterate"
    /\ UNCHANGED <<path, source, index_chunksize, consumed, opened, chunk, raised, fnvars>>

\* _create_index_template, then the creation of the documents generator,
\* which runs none of its body.
CreateIndexTemplate ==
    /\ pc = "template"
    /\ \E status \in Statuses :
        /\ requests' = Append(requests,
                Request("PUT", ELASTICSEARCH_ENDPOINT \o "/_template/atx311",
                        [index_patterns |-> <<"atx311-*">>, mappings |-> INDEX_MAPPINGS],
                        status))
        /\ AfterResponse(status, "iterate")
    /\ UNCHANGED <<path, source, index_chunksize, consumed, opened, chunk, fnvars>>

\* What islice took: the documents, the rows taken from the reader, and the
\* exception of the row that could not be hydrated ("" when none).
Taken(docs, taken, exc) == [docs |-> docs, taken |-> taken, exc |-> exc]

RECURSIVE Hydrate(_, _, _, _)
\* The documents of rows from+1 .. to of rows, hydrated in order: the
\* generator stops at the first row whose hydration raises.
HydrateNext(rows, from, to, docs, d) ==
    IF IsRaise(d) THEN Taken(docs, from + 1, d.exc)
    ELSE Hydrate(rows, from + 1, to, Append(docs, d))

Hydrate(rows, from, to, docs) ==
    IF from >= to THEN Taken(docs, from, "")
    ELSE HydrateNext(rows, from, to, docs, _document_from_row(rows[from + 1]))

Min(a, b) == IF a < b THEN a ELSE b

\* IsliceTook as a loop that tests for more rows by taking one from the
\* iterator after each chunk would be.
IsliceTookPeeking(h) ==
    /\ consumed' = (IF h.docs = <<>> THEN h.taken ELSE h.taken + 1)
    /\ IF h.exc # "" THEN pc' = "aborted" /\ raised' = h.exc /\ chunk' = chunk
       ELSE /\ chunk' = h.docs
            /\ raised' = raised
            /\ pc' = IF h.docs = <<>> THEN "done" ELSE "index"

\* tuple(itertools.islice(docs_iterator, index_chunksize)) and the test that
\* follows it.
IsliceTook(h) ==
    /\ consumed' = h.taken
    /\ IF h.exc # "" THEN pc' = "aborted" /\ raised' = h.exc /\ chunk' = chunk
       ELSE /\ chunk' = h.docs
            /\ raised' = raised
            /\ pc' = IF h.docs = <<>> THEN "done" ELSE "index"

\* Islice as islice(docs_iterator, index_chunksize + 1) would be.
IsliceOneMore ==
    /\ pc = "iterate"
    /\ IsliceTook(Hydrate(source, consumed,
                          Min(Len(source), consumed + index_chunksize + 1), <<>>))
    /\ opened' = TRUE
    /\ IF opened \/ path THEN requests' = requests
       ELSE \E status \in Statuses :
                requests' = Append(requests,
                    Request("GET", CSV_DOWNLOAD_ENDPOINT, [accessType |-> "DOWNLOAD"], status))
    /\ UNCHANGED <<path, source, index_chunksize, fnvars>>

\* chunk = tuple(itertools.islice(docs_iterator, index_chunksize)); if not
\* chunk: break.  The first next() starts the generator, which opens the
\* file or issues the download, whose status nothing checks.
Islice ==
    /\ pc = "iterate"
    /\ IsliceTook(Hydrate(source, consumed, Min(Len(source), consumed + index_chunksize), <<>>))
    /\ opened' = TRUE
    /\ IF opened \/ path THEN requests' = requests
       ELSE \E status \in Statuses :
                requests' = Append(requests,
                    Request("GET", CSV_DOWNLOAD_ENDPOINT, [accessType |-> "DOWNLOAD"], status))
    /\ UNCHANGED <<path, source, index_chunksize, fnvars>>

\* PostBuffer as _index_documents without raise_for_status would be.
PostBufferUnchecked(buffer) ==
    IF IsRaise(buffer)
    THEN pc' = "aborted" /\ raised' = buffer.exc /\ requests' = requests
    ELSE /\ \E status \in Statuses :
                requests' = Append(requests,
                    Request("POST", ELASTICSEARCH_ENDPOINT \o "/_bulk", buffer.s, status))
         /\ pc' = "iterate" /\ raised' = raised

\* requests.post of the buffer, unless writing it raised.
PostBuffer(buffer) ==
    IF IsRaise(buffer)
    THEN pc' = "aborted" /\ raised' = buffer.exc /\ requests' = requests
    ELSE \E status \in Statuses :
            /\ requests' = Append(requests,
                    Request("POST", ELASTICSEARCH_ENDPOINT \o "/_bulk", buffer.s, status))
            /\ AfterResponse(status, "iterate")

\* _index_documents(chunk)
IndexDocuments ==
    /\ pc = "index"
    /\ PostBuffer(BulkBuffer(chunk))
    /\ UNCHANGED <<path, source, index_chunksize, consumed, opened, chunk, fnvars>>

Next ==
    \/ CreateIndexTemplate
    \/ Islice
    \/ IndexDocuments

Spec == Init /\ [][Next]_vars


(***************************************************************************)
(* Properties of a run: what the requests of a run hold                    *)
(***************************************************************************)
\* The least number of a set of numbers that is not empty.
Least(S) == CHOOSE k \in S : \A j \in S : k <= j

\* The lines of a text, without their newlines: ends holds the indices of
\* the newlines from i on and, for a text that does not end with one,
\* Len(s) + 1.
RECURSIVE LinesFrom(_, _, _)
LinesFrom(s, i, ends) ==
    IF i > Len(s) THEN <<>>
    ELSE <<Slice(s, i, Least(ends) - 1)>>
         \o LinesFrom(s, Least(ends) + 1, ends \ {Least(ends)})

Lines(s) == LinesFrom(s, 1, {k \in 1..Len(s) : Ch(s, k) = "\n"} \cup {Len(s) + 1})

NewlineTerminated(s) == s = "" \/ Ch(s, Len(s)) = "\n"

IsBulkRequest(r) == r.method = "POST" /\ r.url = ELASTICSEARCH_ENDPOINT \o "/_bulk"

IsTemplateRequest(r) ==
    r.method = "PUT" /\ r.url = ELASTICSEARCH_ENDPOINT \o "/_template/atx311"

BulkRequests == SelectSeq(requests, IsBulkRequest)

\* The documents of a payload: its even lines, parsed.
DocumentLines(lines) == [i \in 1..(Len(lines) \div 2) |-> Loads(lines[2 * i])]

DocumentsOf(body) == DocumentLines(Lines(body))

DocumentCount(r) == Len(Lines(r.body)) \div 2

\* The documents of the first n bulk requests, in the order of the requests.
RECURSIVE DocumentsUpTo(_)
DocumentsUpTo(n) ==
    IF n = 0 THEN <<>> ELSE DocumentsUpTo(n - 1) \o DocumentsOf(BulkRequests[n].body)

SubmittedDocuments == DocumentsUpTo(Len(BulkRequests))

\* docs is the hydrated rows of the first Len(docs) rows of the source.
IsHydratedPrefix(docs) ==
    /\ Len(docs) <= Len(source)
    /\ \A i \in 1..Len(docs) : docs[i] = _document_from_row(source[i])

\* A row the run cannot load: its hydration raises, or the index name of its
\* document cannot be computed.
DocumentIsBad(document) ==
    IF IsRaise(document) THEN TRUE ELSE IsRaise(_document_to_index_name(document))

RowIsBad(row) == DocumentIsBad(_document_from_row(row))

HasBadRow == \E i \in 1..Len(source) : RowIsBad(source[i])

\* The 0-based position of the first bad row of a source that has one.
RECURSIVE FirstBadFrom(_)
FirstBadFrom(k) == IF RowIsBad(source[k + 1]) THEN k ELSE FirstBadFrom(k + 1)

FirstBadRow == FirstBadFrom(0)

\* The bulk requests are n, and hold the first n * B rows of the source.
BulkRequestsHold(n) ==
    /\ Len(BulkRequests) = n
    /\ Len(SubmittedDocuments) = n * index_chunksize
    /\ IsHydratedPrefix(SubmittedDocuments)

EveryRequestSucceeded == \A i \in 1..Len(requests) : ~RaisesForStatus(requests[i].status)

RunIsOver == pc \in {"done", "aborted"}

CeilDiv(n, b) == (n + b - 1) \div b

\* C1: a run over N valid rows whose requests all succeed ends normally
\* having issued exactly ceil(N / B) bulk requests, each of 1 to B documents,
\* the last of N mod B documents when that is not zero; so none for N = 0
\* and no empty one after a multiple of B.
C1_BulkRequestCount ==
    (RunIsOver /\ ~HasBadRow /\ EveryRequestSucceeded) =>
        /\ pc = "done"
        /\ Len(BulkRequests) = CeilDiv(Len(source), index_chunksize)
        /\ \A j \in 1..Len(BulkRequests) :
                /\ 1 <= DocumentCount(BulkRequests[j])
                /\ DocumentCount(BulkRequests[j]) <= index_chunksize
                /\ Len(Lines(BulkRequests[j].body)) = 2 * DocumentCount(BulkRequests[j])
        /\ Len(source) % index_chunksize # 0 =>
                DocumentCount(BulkRequests[Len(BulkRequests)]) = Len(source) % index_chunksize

\* A finished run over three rows in batches of two: two bulk requests, the
\* last one partial.
C1_Witness ==
    /\ pc = "done" /\ Len(source) = 3 /\ index_chunksize = 2
    /\ Len(BulkRequests) = 2
    /\ DocumentCount(BulkRequests[2]) = 1

\* C2: the first request of every run is the one PUT of the template; the
\* source is opened and any other request is issued only after it came back
\* with success; when it comes back with a failure the run is aborted with
\* that one request issued, the source unopened and no row read.
C2_TemplateFirst ==
    /\ pc # "template" => requests # <<>>
    /\ requests # <<>> => IsTemplateRequest(requests[1])
    /\ \A i \in 2..Len(requests) : ~IsTemplateRequest(requests[i])
    /\ (opened \/ Len(requests) > 1 \/ consumed > 0) =>
            (requests # <<>> /\ ~RaisesForStatus(requests[1].status))
    /\ (requests # <<>> /\ RaisesForStatus(requests[1].status)) =>
            /\ pc = "aborted" /\ raised = "HTTPError"
            /\ Len(requests) = 1 /\ BulkRequests = <<>>
            /\ ~opened /\ consumed = 0

\* A download run that has issued a bulk request: the template request came
\* first and succeeded, the download second.
C2_Witness ==
    /\ ~path /\ opened
    /\ Len(requests) = 3
    /\ IsTemplateRequest(requests[1]) /\ requests[1].status = 200
    /\ requests[2].method = "GET"
    /\ IsBulkRequest(requests[3])

\* C3: a bulk request that came back with a failure is the last request of
\* the run: the run is aborted with HTTPError, the j-th bulk request being the
\* failed one there are j bulk requests, the rows read are those already
\* sent, and the aborted run takes no further step.
C3_BulkFailureAborts ==
    \A j \in 1..Len(BulkRequests) :
        RaisesForStatus(BulkRequests[j].status) =>
            /\ pc = "aborted" /\ raised = "HTTPError"
            /\ Len(BulkRequests) = j
            /\ requests[Len(requests)] = BulkRequests[j]
            /\ consumed = Len(SubmittedDocuments)
            /\ ~ENABLED Next

\* The second bulk request failed with rows left in the source.
C3_Witness ==
    /\ Len(BulkRequests) = 2
    /\ ~RaisesForStatus(BulkRequests[1].status)
    /\ RaisesForStatus(BulkRequests[2].status)
    /\ consumed < Len(source)

\* The action {"index": {"_index": name}} of a document.
ActionFor(document) ==
    Dict(<<Item("index", Dict(<<Item("_index", _document_to_index_name(document))>>))>>)

IsActionOf(action, document) == document.t = "dict" /\ action = ActionFor(document)

LinesArePairs(lines) ==
    /\ Len(lines) % 2 = 0
    /\ \A i \in 1..(Len(lines) \div 2) : IsActionOf(Loads(lines[2 * i - 1]), Loads(lines[2 * i]))

PayloadIsPairs(body) == NewlineTerminated(body) /\ LinesArePairs(Lines(body))

\* The lines are two per document of the chunk, the even ones the documents
\* of the chunk in chunk order, each odd one the action of the document
\* after it.
LinesAreChunk(lines, docs_chunk) ==
    /\ Len(lines) = 2 * Len(docs_chunk)
    /\ \A i \in 1..Len(docs_chunk) :
            /\ Loads(lines[2 * i]) = docs_chunk[i]
            /\ Loads(lines[2 * i - 1]) = ActionFor(docs_chunk[i])

\* The chunk variable still holds the chunk of the last request.
ChunkJustSent ==
    /\ requests # <<>>
    /\ IsBulkRequest(requests[Len(requests)])
    /\ pc = "iterate" \/ (pc = "aborted" /\ raised = "HTTPError")

\* C8: a payload ends with a newline and has an even number of lines; each
\* odd line is the action {"index": {"_index": name}} whose name is the index
\* name of the document on the line after it; and the payload of the chunk
\* just sent has two lines per document of the chunk, its even lines being
\* the documents of the chunk in chunk order.
C8_PayloadLines ==
    /\ \A j \in 1..Len(BulkRequests) : PayloadIsPairs(BulkRequests[j].body)
    /\ ChunkJustSent => LinesAreChunk(Lines(requests[Len(requests)].body), chunk)

\* One payload sends a document of March to atx311-2021-03 and, after it, a
\* document of April to atx311-2021-04.
C8_Witness ==
    /\ ChunkJustSent /\ Len(chunk) = 2
    /\ ActionFor(chunk[1]).items[1].v.items[1].v = PyStr("atx311-2021-03")
    /\ ActionFor(chunk[2]).items[1].v.items[1].v = PyStr("atx311-2021-04")
    /\ Len(Lines(requests[Len(requests)].body)) = 4

\* C9: in a run whose requests all succeed and whose first bad row is at
\* 0-based position k, no more than floor(k / B) bulk requests are issued and
\* the run never ends normally; once it is aborted, by the exception of the
\* row, exactly floor(k / B) bulk requests were issued and they hold exactly
\* rows 0 .. B * floor(k / B) - 1.
C9_FirstBadRowAborts ==
    (EveryRequestSucceeded /\ HasBadRow) =>
        /\ pc # "done"
        /\ Len(BulkRequests) <= FirstBadRow \div index_chunksize
        /\ pc = "aborted" =>
                /\ raised \in {"ValueError", "TypeError", "KeyError"}
                /\ BulkRequestsHold(FirstBadRow \div index_chunksize)

\* The third row is the first bad one: it hydrates, and its timestamp
\* cannot be read.  With batches of two the run aborted after the one bulk
\* request of the two rows before it.
C9_Witness ==
    /\ pc = "aborted" /\ EveryRequestSucceeded
    /\ Len(source) = 3 /\ HasBadRow /\ FirstBadRow = 2
    /\ ~IsRaise(_document_from_row(source[3]))
    /\ index_chunksize = 2 /\ Len(BulkRequests) = 1

\* C10: at every point of a run the documents submitted so far, in the
\* order of the requests, are the hydrated rows of a prefix of the source, in
\* source order; a run that ends normally has submitted all of them.
C10_SubmittedIsPrefix ==
    LET docs == SubmittedDocuments
    IN  /\ IsHydratedPrefix(docs)
        /\ pc = "done" => Len(docs) = Len(source)

\* A finished run that crossed a chunk boundary with different rows on its
\* two sides.
C10_Witness ==
    /\ pc = "done" /\ Len(source) = 3 /\ index_chunksize = 2
    /\ source[2] # source[3] /\ source[1] # source[2]
    /\ Len(SubmittedDocuments) = 3

(***************************************************************************)
(* Properties of the functions                                             *)
(***************************************************************************)
Returned(name) == call = name /\ ret # Pending

\* What the document holds for one column: nothing when the row lacks the
\* column, null when its value is empty or None, the converted value
\* otherwise.
HoldsField(document, new_name, raw, converted) ==
    IF raw = Absent THEN ~DictHas(document, new_name)
    ELSE /\ DictHas(document, new_name)
         /\ DictGet(document, new_name) =
                (IF raw = None \/ raw = PyStr("") THEN None ELSE converted)

IntOfRaw(raw) == IF raw.t = "str" /\ raw.s # "" THEN PyIntOf(raw.s) ELSE None

FloatOfRaw(raw) == IF raw.t = "str" /\ raw.s # "" THEN PyFloatOf(raw.s) ELSE None

CoordinatesOfRaw(raw) == IF raw.t = "str" /\ raw.s # "" THEN coordinates(raw.s) ELSE None

TargetNames == {ROW_TO_FIELD[i].new_name : i \in 1..Len(ROW_TO_FIELD)}

\* C4: when no conversion of the row raises, the hydrated document holds,
\* for each mapped column of the row, the target field with the converted
\* value (null for an empty value), has no key for a mapped column the row
\* lacks, and has no key that is not a target name; when a conversion
\* raises, so does the hydration.
C4_HydratedFields ==
    Returned("_document_from_row") =>
        IF IsRaise(IntOfRaw(shape.district)) \/ IsRaise(FloatOfRaw(shape.latitude))
        THEN ret = Raise("ValueError")
        ELSE /\ ret.t = "dict"
             /\ HoldsField(ret, "sr_req_status", shape.status, shape.status)
             /\ HoldsField(ret, "timestamp", shape.created, shape.created)
             /\ HoldsField(ret, "sr_req_council_district_number", shape.district,
                           IntOfRaw(shape.district))
             /\ HoldsField(ret, "sr_req_latitude_coordinate", shape.latitude,
                           FloatOfRaw(shape.latitude))
             /\ HoldsField(ret, "sr_req_coordinates", shape.coords,
                           CoordinatesOfRaw(shape.coords))
             /\ \A i \in 1..Len(ret.items) : ret.items[i].k \in TargetNames
             /\ Len(ret.items) =
                    Cardinality({c \in {"status", "created", "district", "latitude", "coords"} :
                                    shape[c] # Absent})

\* A row with a district to convert, an empty status, no latitude column and
\* a column the table does not map.
C4_Witness ==
    /\ Returned("_document_from_row") /\ ret.t = "dict"
    /\ shape.district = PyStr(" 10 ") /\ DictGet(ret, "sr_req_council_district_number") = PyInt(10)
    /\ shape.status = PyStr("") /\ DictGet(ret, "sr_req_status") = None
    /\ shape.latitude = Absent /\ ~DictHas(ret, "sr_req_latitude_coordinate")
    /\ shape.coords = PyStr("(30.1, -97.1)")
    /\ shape.extra = PyStr("n/a")

\* digits "." digits
IsDecimal(s) ==
    /\ RunEnd(s, 1, Digit) > 1
    /\ Ch(s, RunEnd(s, 1, Digit)) = "."
    /\ RunEnd(s, RunEnd(s, 1, Digit) + 1, Digit) = Len(s) + 1
    /\ Ch(s, Len(s)) # "."

\* "(<lat>, <lon>)" with <lat> a non-negative decimal and <lon> a decimal,
\* optionally negative.
CoordinatesForm(p) ==
    /\ p.open = "(" /\ IsDecimal(p.lat) /\ p.sep = ", "
    /\ p.sign \in {"", "-"} /\ IsDecimal(p.lon) /\ p.close = ")"

\* C5: coordinates returns "<lat>,<lon>" exactly for the strings of the form
\* "(<lat>, <lon>)", the longitude with or without a minus sign, and None for
\* every other string.
C5_CoordinatesAsSpecified ==
    Returned("coordinates") =>
        ret = (IF CoordinatesForm(shape)
               THEN PyStr(shape.lat \o "," \o shape.sign \o shape.lon)
               ELSE None)

\* Days of a month of the proleptic Gregorian calendar.
MonthLength(y, m) ==
    IF m = 2 THEN (IF y % 4 = 0 /\ (y % 100 # 0 \/ y % 400 = 0) THEN 29 ELSE 28)
    ELSE IF m \in {4, 6, 9, 11} THEN 30 ELSE 31

\* The fields name a date of years 1..9999 and a time of the 12-hour clock.
ValidFields(p) ==
    /\ 1 <= p.y /\ p.y <= 9999
    /\ 1 <= p.m /\ p.m <= 12
    /\ 1 <= p.d /\ p.d <= MonthLength(p.y, p.m)
    /\ 1 <= p.h /\ p.h <= 12
    /\ p.mi <= 59 /\ p.sec <= 59

MonthlyIndex(y, m) ==
    PyStr("atx311-" \o NatStr(y) \o "-" \o (IF m < 10 THEN "0" ELSE "") \o NatStr(m))

\* The timestamp is written MM/dd/yyyy hh:mm:ss AM|PM.
InFixedFormat(p) == p.style # "none" /\ ValidFields(p) /\ TsText(p) = TsFixed(p)

\* The styles strptime reads like the fixed format: fields without their
\* zero padding, the marker in lower case, wider whitespace between the
\* parts, a day padded with a space.
ReadableStyles == {"fixed", "unpadded", "lower", "wide", "spaceday"}

Readable(p) == p.style \in ReadableStyles /\ ValidFields(p)

\* C6 as stated: a timestamp in the fixed format gives "atx311-<y>-<mm>",
\* whatever its day, time and marker; a timestamp that is missing, null or
\* not in that format makes the function raise.
C6_IndexNameAsStated ==
    Returned("_document_to_index_name") =>
        IF InFixedFormat(shape) THEN ret = MonthlyIndex(shape.y, shape.m) ELSE IsRaise(ret)

\* C6: a timestamp of valid fields in the fixed format, or in one of the
\* styles strptime reads like it, gives "atx311-<y>-<mm>", whatever its day,
\* time and marker; every other timestamp, a missing one and a null one make
\* the function raise: KeyError when missing, TypeError when null,
\* ValueError otherwise.
C6_IndexName ==
    Returned("_document_to_index_name") =>
        IF shape.style = "none"
        THEN ret = (IF DictHas(arg, "timestamp") THEN Raise("TypeError") ELSE Raise("KeyError"))
        ELSE IF Readable(shape) THEN ret = MonthlyIndex(shape.y, shape.m)
        ELSE ret = Raise("ValueError")

\* "03/15/2021 02:30:00 PM" gave "atx311-2021-03".
C6_Witness ==
    /\ Returned("_document_to_index_name")
    /\ arg = Dict(<<Item("timestamp", PyStr("03/15/2021 02:30:00 PM"))>>)
    /\ shape.style = "fixed"
    /\ ret = PyStr("atx311-2021-03")

\* The document line of the payload of one document, parsed.
DocumentLine(lines) == IF Len(lines) = 2 THEN Loads(lines[2]) ELSE JsonError

Reparsed == DocumentLine(Lines(ret.s))

Keys(d) == [i \in 1..Len(d.items) |-> d.items[i].k]

\* a == b of Python on two values of one type: a NaN equals nothing.
PyEq(a, b) == a = b /\ a # NaN

\* The mapping read has the keys of the document, and equal values.
EqualDocuments(read, document) ==
    /\ read.t = "dict"
    /\ Keys(read) = Keys(document)
    /\ \A i \in 1..Len(document.items) : PyEq(read.items[i].v, document.items[i].v)

\* The same, but that a NaN of the document is read as a NaN.
EqualButNaN(read, document) ==
    /\ read.t = "dict"
    /\ Keys(read) = Keys(document)
    /\ \A i \in 1..Len(document.items) :
            IF document.items[i].v = NaN THEN read.items[i].v = NaN
            ELSE PyEq(read.items[i].v, document.items[i].v)

\* C7 as stated: the document line parses to a mapping with the keys of the
\* document and, under each key, a value equal to the document's.
C7_RoundTripAsStated ==
    (Returned("_index_documents") /\ ~IsRaise(ret)) => EqualDocuments(Reparsed, arg)

\* C7: the document line parses to a mapping with the keys of the document
\* and, under each key, a value of the same type equal to the document's,
\* but for a NaN, which comes back as a NaN and equals nothing.
C7_RoundTrip ==
    (Returned("_index_documents") /\ ~IsRaise(ret)) =>
        /\ NewlineTerminated(ret.s)
        /\ EqualButNaN(Reparsed, arg)

\* A document with a string to escape, a negative integer, a float in
\* exponent notation and a null came back equal.
C7_Witness ==
    /\ Returned("_index_documents") /\ ~IsRaise(ret)
    /\ shape.status = PyStr("back\\slash")
    /\ shape.district = PyStr("-3")
    /\ shape.latitude = PyStr("1e-5")
    /\ shape.coords = Absent
    /\ DictGet(arg, "sr_req_council_district_number") = PyInt(-3)
    /\ Reparsed = arg
====
